---- MODULE Spec2Model ----
(***************************************************************************)
(* The guided bootstrap questionnaire of                                   *)
(* samcli/commands/pipeline/bootstrap/guided_context.py (GuidedContext).   *)
(*                                                                         *)
(* self      the fields of the GuidedContext object (the oidc/github/      *)
(*           gitlab/bitbucket config objects are flattened into it)        *)
(* pc        the prompt handler the flow is blocked in, or "summary"       *)
(*           (top of the while loop of run), "returned" (run returned),    *)
(*           "exited" (sys.exit), "raised" (an exception left run)         *)
(* phase     "collect": lines 364-417 of run; "review": its while loop     *)
(* inputs    the local list of (label, editor) pairs of the while loop     *)
(* depth     recursion depth of _prompt_account_id                         *)
(* edits     number of entries edited in the while loop                    *)
(* answer    the lines the user typed at the last handler                  *)
(* echo      the guidance or result message the last step printed          *)
(* asked     which of the two exclusive question groups ("oidc",           *)
(*           "pipeline_user") had a question asked so far                  *)
(* exit_status  -1 while running or after a normal return, else the status *)
(***************************************************************************)
EXTENDS Integers, Sequences, FiniteSets, TLC

VARIABLES self, pc, phase, inputs, depth, edits, answer, echo, asked, exit_status

vars == <<self, pc, phase, inputs, depth, edits, answer, echo, asked, exit_status>>

\* ------------------------------------------------------------- bounds
\* constructor arguments that differ from their defaults
MaxSeeded == 1
\* consecutive failed identity resolutions within one account question
MaxDepth == 2
\* entries edited in the review loop
MaxEdits == 2

\* ---------------------------------------------------------- constants
GITHUB_ACTIONS == "github-actions"
GITLAB == "gitlab"
BITBUCKET == "bitbucket-pipelines"
OPEN_ID_CONNECT == "oidc"
IAM == "iam"

\* None and the empty string (both falsy) of a text field
NONE == ""
\* None and the empty string of a URL; URLs are sequences of characters
NO_URL == << >>

HTTPS == <<"h","t","t","p","s",":","/","/">>
GITHUB_URL == <<"h","t","t","p","s",":","/","/","t","o","k","e","n",".","a","c","t","i","o","n","s",".","g","i","t","h","u","b","u","s","e","r","c","o","n","t","e","n","t",".","c","o","m">>
GITLAB_URL == <<"h","t","t","p","s",":","/","/","g","i","t","l","a","b",".","c","o","m">>

SUPPORTED_OIDC_PROVIDERS == [c \in {"1", "2", "3"} |->
    CASE c = "1" -> GITHUB_ACTIONS [] c = "2" -> GITLAB [] c = "3" -> BITBUCKET]

DEFAULT_OIDC_URLS == [p \in {GITHUB_ACTIONS, GITLAB, BITBUCKET} |->
    CASE p = GITHUB_ACTIONS -> GITHUB_URL [] p = GITLAB -> GITLAB_URL [] p = BITBUCKET -> NO_URL]

DEFAULT_CLIENT_IDS == [p \in {GITHUB_ACTIONS, GITLAB, BITBUCKET} |->
    CASE p = GITHUB_ACTIONS -> "sts.amazonaws.com" [] p = GITLAB -> "https://gitlab.com"
      [] p = BITBUCKET -> NONE]

\* ------------------------------------------------ external collaborators
\* list_available_profiles()
list_available_profiles == <<"default">>
\* get_default_aws_region()
get_default_aws_region == "us-east-1"
\* get_current_account_id(profile), when it does not raise CredentialsError
get_current_account_id(profile) == IF profile = NONE THEN "111111111111" ELSE "222222222222"

\* ------------------------------------------------------- what users type
\* text typed at a free-text prompt ("" is a bare Enter)
TextInputs == {"", "val"}
\* the region, role and bucket prompts: a bare Enter (a value other than the
\* default reaches these fields as a constructor argument)
EnterOnly == {""}
BranchInputs == {"", "dev"}
UrlInputs == {NO_URL,
              <<"g","i","t","l","a","b",".","c","o","m">>,
              GITLAB_URL,
              <<"x","h","t","t","p","s",":","/","/","a">>}

\* the line of text a URL typed is, as shown in the terminal
line(u) ==
    CASE u = NO_URL -> ""
      [] u = <<"g","i","t","l","a","b",".","c","o","m">> -> "gitlab.com"
      [] u = GITLAB_URL -> "https://gitlab.com"
      [] u = <<"x","h","t","t","p","s",":","/","/","a">> -> "xhttps://a"

\* ------------------------------------------------------- library calls
\* str.find(sub): the lowest index of sub in s, -1 when absent
find(s, sub) ==
    LET hits == {i \in 0..(Len(s) - Len(sub)) : SubSeq(s, i + 1, i + Len(sub)) = sub}
    IN  IF hits = {} THEN -1 ELSE CHOOSE i \in hits : \A j \in hits : i <= j

\* str(n) and int(s) on the indices of the summary
Numerals == <<"1", "2", "3", "4", "5", "6", "7", "8", "9", "10", "11", "12">>
str(n) == IF n = 0 THEN "0" ELSE Numerals[n]
int(s) == IF s = "0" THEN 0 ELSE CHOOSE n \in 1..Len(Numerals) : Numerals[n] = s

\* click.prompt(default=...): whether the typed line ends the prompt (an
\* empty line without a default asks again), and the value it returns
click_accepts(typed, has_default, empty) == typed # empty \/ has_default
click_prompt(typed, default, empty) == IF typed # empty THEN typed ELSE default

\* --------------------------------------------------------- constructor
\* GuidedContext.__init__ with no optional argument given
Defaults ==
    [ profile |-> NONE,
      stage_configuration_name |-> NONE,
      pipeline_user_arn |-> NONE,
      pipeline_execution_role_arn |-> NONE,
      cloudformation_execution_role_arn |-> NONE,
      artifacts_bucket_arn |-> NONE,
      create_image_repository |-> FALSE,
      image_repository_arn |-> NONE,
      region |-> NONE,
      permissions_provider |-> NONE,
      enable_oidc_option |-> TRUE,
      oidc_provider |-> NONE,
      oidc_provider_url |-> NO_URL,
      oidc_client_id |-> NONE,
      github_org |-> NONE,
      github_repo |-> NONE,
      github_deployment_branch |-> NONE,
      gitlab_group |-> NONE,
      gitlab_project |-> NONE,
      gitlab_deployment_branch |-> NONE,
      bitbucket_repo_uuid |-> NONE ]

\* the arguments a caller can pass, as <<field, value>>
Seedable ==
    { <<f, "val">> : f \in {"stage_configuration_name", "pipeline_user_arn",
          "pipeline_execution_role_arn", "cloudformation_execution_role_arn",
          "artifacts_bucket_arn", "image_repository_arn", "region", "oidc_client_id",
          "github_org", "github_repo", "gitlab_group", "gitlab_project",
          "bitbucket_repo_uuid"} }
    \cup { <<"profile", "default">>,
           <<"github_deployment_branch", "dev">>, <<"gitlab_deployment_branch", "dev">>,
           <<"create_image_repository", TRUE>>, <<"enable_oidc_option", FALSE>>,
           <<"permissions_provider", IAM>>, <<"permissions_provider", OPEN_ID_CONNECT>> }
    \cup { <<"oidc_provider", p>> : p \in {GITHUB_ACTIONS, GITLAB, BITBUCKET} }
    \cup { <<"oidc_provider_url", u>> : u \in UrlInputs \ {NO_URL} }

RECURSIVE Constructed(_)
Constructed(k) ==
    IF k = 0 THEN {Defaults}
    ELSE LET fewer == Constructed(k - 1)
         IN  fewer \cup { [s EXCEPT ![a[1]] = a[2]] : s \in fewer, a \in Seedable }

\* ------------------------------------------------- what handlers store
\* Each operator is the assignment a prompt handler makes, given the line(s)
\* the user typed.
set_stage_configuration_name(s, typed) ==
    [s EXCEPT !.stage_configuration_name = click_prompt(typed, s.stage_configuration_name, "")]

set_region(s, typed) ==
    [s EXCEPT !.region = click_prompt(typed, get_default_aws_region, "")]

set_pipeline_user(s, typed) ==
    [s EXCEPT !.pipeline_user_arn = click_prompt(typed, "", "")]

set_pipeline_execution_role(s, typed) ==
    [s EXCEPT !.pipeline_execution_role_arn = click_prompt(typed, "", "")]

set_cloudformation_execution_role(s, typed) ==
    [s EXCEPT !.cloudformation_execution_role_arn = click_prompt(typed, "", "")]

set_artifacts_bucket(s, typed) ==
    [s EXCEPT !.artifacts_bucket_arn = click_prompt(typed, "", "")]

\* set_image_repository whose no branch assigns nothing
set_image_repository_no_keeps_flag(s, confirm, typed) ==
    IF confirm
    THEN LET arn == click_prompt(typed, "", "")
         IN  [s EXCEPT !.image_repository_arn = arn,
                       !.create_image_repository = ~(arn # NONE)]
    ELSE s

\* set_image_repository with the flag not negated (bool(arn) for not bool(arn))
set_image_repository_flag_not_negated(s, confirm, typed) ==
    IF confirm
    THEN LET arn == click_prompt(typed, "", "")
         IN  [s EXCEPT !.image_repository_arn = arn,
                       !.create_image_repository = (arn # NONE)]
    ELSE [s EXCEPT !.create_image_repository = FALSE]

\* _prompt_image_repository: confirm is the answer to click.confirm
set_image_repository(s, confirm, typed) ==
    IF confirm
    THEN LET arn == click_prompt(typed, "", "")
         IN  [s EXCEPT !.image_repository_arn = arn,
                       !.create_image_repository = ~(arn # NONE)]
    ELSE [s EXCEPT !.create_image_repository = FALSE]

set_permissions_provider(s, typed) ==
    LET user_provider == click_prompt(typed, "1", "")
    IN  [s EXCEPT !.permissions_provider =
                      IF user_provider = "2" THEN OPEN_ID_CONNECT ELSE IAM]

set_oidc_provider(s, typed) ==
    [s EXCEPT !.oidc_provider = SUPPORTED_OIDC_PROVIDERS[typed]]

\* the default of the URL prompt (None when no provider is chosen)
oidc_url_default(s) ==
    IF s.oidc_provider # NONE THEN DEFAULT_OIDC_URLS[s.oidc_provider] ELSE NO_URL

set_oidc_provider_url(s, typed) ==
    [s EXCEPT !.oidc_provider_url = click_prompt(typed, oidc_url_default(s), NO_URL)]

oidc_client_id_default(s) ==
    IF s.oidc_provider # NONE THEN DEFAULT_CLIENT_IDS[s.oidc_provider] ELSE NONE

set_oidc_client_id(s, typed) ==
    [s EXCEPT !.oidc_client_id = click_prompt(typed, oidc_client_id_default(s), "")]

set_bitbucket_repo_uuid(s, typed) == [s EXCEPT !.bitbucket_repo_uuid = typed]
set_gitlab_group(s, typed) == [s EXCEPT !.gitlab_group = typed]
set_gitlab_project(s, typed) == [s EXCEPT !.gitlab_project = typed]
set_github_org(s, typed) == [s EXCEPT !.github_org = typed]
set_github_repo(s, typed) == [s EXCEPT !.github_repo = typed]

\* set_deployment_branch with the stored branch as the prompt's default
set_deployment_branch_default_stored(s, typed) ==
    LET stored_branch == IF s.oidc_provider = GITLAB THEN s.gitlab_deployment_branch
                         ELSE s.github_deployment_branch
        deployment_branch == click_prompt(typed, stored_branch, "")
    IN  [s EXCEPT !.github_deployment_branch = deployment_branch,
                  !.gitlab_deployment_branch = deployment_branch]

\* _prompt_deployment_branch: one answer, assigned to both configurations
set_deployment_branch(s, typed) ==
    LET deployment_branch == click_prompt(typed, "main", "")
    IN  [s EXCEPT !.github_deployment_branch = deployment_branch,
                  !.gitlab_deployment_branch = deployment_branch]

\* _prompt_account_id: the choices offered, and the profile a choice selects
account_choices(has_env_creds) ==
    (IF has_env_creds THEN {"1"} ELSE {})
    \cup {str(i + 1) : i \in 1..Len(list_available_profiles)} \cup {"q"}

set_profile(s, typed) ==
    IF typed = "1" THEN [s EXCEPT !.profile = NONE]
    ELSE [s EXCEPT !.profile = list_available_profiles[int(typed) - 1]]

\* the two tests of _validate_oidc_provider_url
url_missing(s) == ~(s.oidc_provider_url # NO_URL)
url_lacks_https(s) == find(s.oidc_provider_url, HTTPS) = -1

\* ------------------------------------------------------ the flow of run
\* Each operator is a program point of run (or of _prompt_subject_claim and
\* _validate_oidc_provider_url, which run calls): the handler the flow next
\* blocks in from that point, given the fields s.  "summary" is the top of
\* the while loop.
\* run_image_repository preceded by a second test of the CloudFormation role
run_image_repository_retests_role(s) ==
    IF ~(s.cloudformation_execution_role_arn # NONE)
    THEN "_prompt_cloudformation_execution_role"
    ELSE IF s.image_repository_arn # NONE THEN "summary" ELSE "_prompt_image_repository"

run_image_repository(s) ==
    IF s.image_repository_arn # NONE THEN "summary" ELSE "_prompt_image_repository"

run_artifacts_bucket(s) ==
    IF s.artifacts_bucket_arn # NONE THEN run_image_repository(s)
    ELSE "_prompt_artifacts_bucket"

run_cloudformation_execution_role(s) ==
    IF s.cloudformation_execution_role_arn # NONE THEN run_artifacts_bucket(s)
    ELSE "_prompt_cloudformation_execution_role"

run_pipeline_execution_role(s) ==
    IF s.pipeline_execution_role_arn # NONE THEN run_cloudformation_execution_role(s)
    ELSE "_prompt_pipeline_execution_role"

subject_github_branch(s) ==
    IF ~(s.github_deployment_branch # NONE) THEN "_prompt_deployment_branch"
    ELSE run_pipeline_execution_role(s)

subject_github_repo(s) ==
    IF ~(s.github_repo # NONE) THEN "_prompt_github_repo" ELSE subject_github_branch(s)

subject_gitlab_branch(s) ==
    IF ~(s.gitlab_deployment_branch # NONE) THEN "_prompt_deployment_branch"
    ELSE run_pipeline_execution_role(s)

subject_gitlab_project(s) ==
    IF ~(s.gitlab_project # NONE) THEN "_prompt_gitlab_project" ELSE subject_gitlab_branch(s)

\* _prompt_subject_claim
subject_claim(s) ==
    IF s.oidc_provider = GITHUB_ACTIONS
    THEN IF ~(s.github_org # NONE) THEN "_prompt_github_org" ELSE subject_github_repo(s)
    ELSE IF s.oidc_provider = GITLAB
    THEN IF ~(s.gitlab_group # NONE) THEN "_prompt_gitlab_group" ELSE subject_gitlab_project(s)
    ELSE IF s.oidc_provider = BITBUCKET
    THEN IF ~(s.bitbucket_repo_uuid # NONE) THEN "_prompt_bitbucket_repo_uuid"
         ELSE run_pipeline_execution_role(s)
    ELSE run_pipeline_execution_role(s)

run_oidc_client_id(s) ==
    IF ~(s.oidc_client_id # NONE) THEN "_prompt_oidc_client_id" ELSE subject_claim(s)

\* the second and the first while loop of _validate_oidc_provider_url
validate_https(s) ==
    IF url_lacks_https(s) THEN "_validate_oidc_provider_url:https" ELSE run_oidc_client_id(s)

validate_missing(s) ==
    IF url_missing(s) THEN "_validate_oidc_provider_url:missing" ELSE validate_https(s)

run_oidc_provider_url(s) ==
    IF ~(s.oidc_provider_url # NO_URL) THEN "_prompt_oidc_provider_url" ELSE validate_missing(s)

run_permissions_branch(s) ==
    IF s.permissions_provider = OPEN_ID_CONNECT
    THEN IF ~(s.oidc_provider # NONE) THEN "_prompt_oidc_provider" ELSE run_oidc_provider_url(s)
    ELSE IF s.pipeline_user_arn # NONE THEN run_pipeline_execution_role(s)
    ELSE "_prompt_pipeline_user"

run_permissions_provider(s) ==
    IF s.enable_oidc_option /\ ~(s.permissions_provider = OPEN_ID_CONNECT)
       /\ ~(s.pipeline_user_arn # NONE)
    THEN "_prompt_permissions_provider"
    ELSE run_permissions_branch(s)

\* run_region without the test of the field
run_region_always_asks(s) == "_prompt_region_name"

run_region(s) ==
    IF ~(s.region # NONE) THEN "_prompt_region_name" ELSE run_permissions_provider(s)

run_account(s) == "_prompt_account_id"

run_stage(s) ==
    IF s.stage_configuration_name # NONE THEN run_account(s)
    ELSE "_prompt_stage_configuration_name"

\* where run goes on when the handler it is blocked in (at pc value q) returns
run_after(q, s) ==
    CASE q = "_prompt_stage_configuration_name" -> run_account(s)
      [] q = "_prompt_account_id" -> run_region(s)
      [] q = "_prompt_region_name" -> run_permissions_provider(s)
      [] q = "_prompt_permissions_provider" -> run_permissions_branch(s)
      [] q = "_prompt_oidc_provider" -> run_oidc_provider_url(s)
      [] q = "_prompt_oidc_provider_url" -> validate_missing(s)
      [] q = "_validate_oidc_provider_url:missing" -> validate_missing(s)
      [] q = "_validate_oidc_provider_url:https" -> validate_https(s)
      [] q = "_prompt_oidc_client_id" -> subject_claim(s)
      [] q = "_prompt_github_org" -> subject_github_repo(s)
      [] q = "_prompt_github_repo" -> subject_github_branch(s)
      [] q = "_prompt_gitlab_group" -> subject_gitlab_project(s)
      [] q = "_prompt_gitlab_project" -> subject_gitlab_branch(s)
      [] q = "_prompt_deployment_branch" -> run_pipeline_execution_role(s)
      [] q = "_prompt_bitbucket_repo_uuid" -> run_pipeline_execution_role(s)
      [] q = "_prompt_pipeline_user" -> run_pipeline_execution_role(s)
      [] q = "_prompt_pipeline_execution_role" -> run_cloudformation_execution_role(s)
      [] q = "_prompt_cloudformation_execution_role" -> run_artifacts_bucket(s)
      [] q = "_prompt_artifacts_bucket" -> run_image_repository(s)
      [] q = "_prompt_image_repository" -> "summary"

\* ------------------------------------------------------ the review list
\* _get_user_inputs, given that get_current_account_id did not raise.  A
\* label is the pair of the f-string's text and the value put into it.
entry(text, value, editor) == [label |-> <<text, value>>, editor |-> editor]

or_to_be_created(text, value, missing, editor) ==
    IF value # NONE THEN entry(text, value, editor) ELSE entry(missing, NONE, editor)

\* oidc_inputs without the entries of the chosen provider
oidc_inputs_without_subject_claim(s) ==
    << entry("OIDC identity provider URL: ", s.oidc_provider_url, "_prompt_oidc_provider_url"),
       entry("OIDC client ID: ", s.oidc_client_id, "_prompt_oidc_client_id") >>

\* oidc_inputs with an entry that re-asks the provider in place of the
\* entries of the chosen provider
oidc_inputs_with_provider_entry(s) ==
    << entry("OIDC provider: ", s.oidc_provider, "_prompt_oidc_provider") >>
    \o oidc_inputs_without_subject_claim(s)

\* the entries of the OIDC branch of _get_user_inputs
oidc_inputs(s) ==
    << entry("OIDC identity provider URL: ", s.oidc_provider_url, "_prompt_oidc_provider_url"),
       entry("OIDC client ID: ", s.oidc_client_id, "_prompt_oidc_client_id") >>
    \o (IF s.oidc_provider = GITHUB_ACTIONS
        THEN << entry("GitHub organization: ", s.github_org, "_prompt_github_org"),
                entry("GitHub repository: ", s.github_repo, "_prompt_github_repo"),
                entry("Deployment branch:  ", s.github_deployment_branch,
                      "_prompt_deployment_branch") >>
        ELSE IF s.oidc_provider = GITLAB
        THEN << entry("GitLab group: ", s.gitlab_group, "_prompt_gitlab_group"),
                entry("GitLab project: ", s.gitlab_project, "_prompt_gitlab_project"),
                entry("Deployment branch: ", s.gitlab_deployment_branch,
                      "_prompt_deployment_branch") >>
        ELSE IF s.oidc_provider = BITBUCKET
        THEN << entry("Bitbucket repository UUID: ", s.bitbucket_repo_uuid,
                      "_prompt_bitbucket_repo_uuid") >>
        ELSE << >>)

_get_user_inputs(s) ==
    << entry("Account: ", get_current_account_id(s.profile), "_prompt_account_id"),
       entry("Stage configuration name: ", s.stage_configuration_name,
             "_prompt_stage_configuration_name"),
       entry("Region: ", s.region, "_prompt_region_name") >>
    \o (IF s.permissions_provider = OPEN_ID_CONNECT
        THEN oidc_inputs(s)
        ELSE << or_to_be_created("Pipeline user ARN: ", s.pipeline_user_arn,
                                 "Pipeline user: [to be created]", "_prompt_pipeline_user") >>)
    \o << or_to_be_created("Pipeline execution role ARN: ", s.pipeline_execution_role_arn,
                           "Pipeline execution role: [to be created]",
                           "_prompt_pipeline_execution_role"),
          or_to_be_created("CloudFormation execution role ARN: ",
                           s.cloudformation_execution_role_arn,
                           "CloudFormation execution role: [to be created]",
                           "_prompt_cloudformation_execution_role"),
          or_to_be_created("Artifacts bucket ARN: ", s.artifacts_bucket_arn,
                           "Artifacts bucket: [to be created]", "_prompt_artifacts_bucket"),
          or_to_be_created("ECR image repository ARN: ", s.image_repository_arn,
                           IF s.create_image_repository
                           THEN "ECR image repository: [to be created]"
                           ELSE "ECR image repository: [skipped]",
                           "_prompt_image_repository") >>

\* -------------------------------------------------------------- actions
Init ==
    /\ self \in Constructed(MaxSeeded)
    /\ pc = run_stage(self)
    /\ phase = "collect"
    /\ inputs = << >>
    /\ depth = 0
    /\ edits = 0
    /\ answer = << >>
    /\ echo = << >>
    /\ asked = {}
    /\ exit_status = -1

\* the handler the flow is blocked in (pc value q) returns: to run's initial
\* pass, which goes on to the next question, or to the while loop
Resume(q) ==
    LET next == IF phase = "review" THEN "summary" ELSE run_after(q, self')
    IN  /\ pc' = next
        /\ phase' = IF next = "summary" THEN "review" ELSE phase

\* the handlers of the OIDC questions, and the group a handler belongs to
OidcQuestions ==
    { "_prompt_oidc_provider", "_prompt_oidc_provider_url",
      "_validate_oidc_provider_url:missing", "_validate_oidc_provider_url:https",
      "_prompt_oidc_client_id", "_prompt_github_org", "_prompt_github_repo",
      "_prompt_gitlab_group", "_prompt_gitlab_project", "_prompt_deployment_branch",
      "_prompt_bitbucket_repo_uuid" }

group(q) ==
    IF q \in OidcQuestions THEN {"oidc"}
    ELSE IF q = "_prompt_pipeline_user" THEN {"pipeline_user"}
    ELSE {}

\* the messages echoed
CREDENTIALS_ERROR == "CredentialsError.message"
ASSOCIATED == "Associated account"
ENTER_URL == "Please enter the URL of the OIDC provider"
ENSURE_HTTPS == "Please ensure the OIDC URL begins with 'https://'"

\* account_quit taken after the profile assignment instead of before it
account_quit_after_assignment ==
    /\ pc' = "exited"
    /\ exit_status' = 0
    /\ echo' = << >>
    /\ self' = [self EXCEPT !.profile = NONE]
    /\ UNCHANGED <<phase, depth>>

\* _prompt_account_id, the answer "q": sys.exit(0), before anything is stored
account_quit ==
    /\ pc' = "exited"
    /\ exit_status' = 0
    /\ echo' = << >>
    /\ UNCHANGED <<self, phase, depth>>

\* _prompt_account_id, get_current_account_id returned: the handler returns
account_resolved ==
    /\ echo' = <<ASSOCIATED, get_current_account_id(self'.profile)>>
    /\ depth' = 0
    /\ exit_status' = exit_status
    /\ Resume(pc)

\* account_unresolved without the recursive call: the message, then return
account_unresolved_returns ==
    /\ echo' = <<CREDENTIALS_ERROR>>
    /\ depth' = 0
    /\ exit_status' = exit_status
    /\ Resume(pc)

\* _prompt_account_id, CredentialsError: the message, then the handler calls
\* itself
account_unresolved ==
    /\ depth < MaxDepth
    /\ echo' = <<CREDENTIALS_ERROR>>
    /\ depth' = depth + 1
    /\ exit_status' = exit_status
    /\ UNCHANGED <<pc, phase>>

\* One asking of the account question: quit, or store the profile and
\* resolve the identity (resolved: get_current_account_id did not raise).
_prompt_account_id ==
    /\ pc = "_prompt_account_id"
    /\ \E has_env_creds \in BOOLEAN : \E typed \in account_choices(has_env_creds) :
          /\ answer' = <<typed>>
          /\ IF typed = "q"
             THEN account_quit
             ELSE /\ self' = set_profile(self, typed)
                  /\ \E resolved \in BOOLEAN :
                        IF resolved THEN account_resolved ELSE account_unresolved
    /\ UNCHANGED <<inputs, edits, asked>>

_prompt_stage_configuration_name ==
    /\ pc = "_prompt_stage_configuration_name"
    /\ \E typed \in TextInputs :
          /\ click_accepts(typed, self.stage_configuration_name # NONE, "")
          /\ self' = set_stage_configuration_name(self, typed)
          /\ answer' = <<typed>>
    /\ echo' = << >>
    /\ asked' = asked \cup group(pc)
    /\ Resume(pc)
    /\ UNCHANGED <<inputs, depth, edits, exit_status>>

_prompt_region_name ==
    /\ pc = "_prompt_region_name"
    /\ \E typed \in EnterOnly :
          /\ click_accepts(typed, TRUE, "")
          /\ self' = set_region(self, typed)
          /\ answer' = <<typed>>
    /\ echo' = << >>
    /\ asked' = asked \cup group(pc)
    /\ Resume(pc)
    /\ UNCHANGED <<inputs, depth, edits, exit_status>>

_prompt_pipeline_user ==
    /\ pc = "_prompt_pipeline_user"
    /\ \E typed \in TextInputs :
          /\ click_accepts(typed, TRUE, "")
          /\ self' = set_pipeline_user(self, typed)
          /\ answer' = <<typed>>
    /\ echo' = << >>
    /\ asked' = asked \cup group(pc)
    /\ Resume(pc)
    /\ UNCHANGED <<inputs, depth, edits, exit_status>>

_prompt_pipeline_execution_role ==
    /\ pc = "_prompt_pipeline_execution_role"
    /\ \E typed \in EnterOnly :
          /\ click_accepts(typed, TRUE, "")
          /\ self' = set_pipeline_execution_role(self, typed)
          /\ answer' = <<typed>>
    /\ echo' = << >>
    /\ asked' = asked \cup group(pc)
    /\ Resume(pc)
    /\ UNCHANGED <<inputs, depth, edits, exit_status>>

_prompt_cloudformation_execution_role ==
    /\ pc = "_prompt_cloudformation_execution_role"
    /\ \E typed \in EnterOnly :
          /\ click_accepts(typed, TRUE, "")
          /\ self' = set_cloudformation_execution_role(self, typed)
          /\ answer' = <<typed>>
    /\ echo' = << >>
    /\ asked' = asked \cup group(pc)
    /\ Resume(pc)
    /\ UNCHANGED <<inputs, depth, edits, exit_status>>

_prompt_artifacts_bucket ==
    /\ pc = "_prompt_artifacts_bucket"
    /\ \E typed \in EnterOnly :
          /\ click_accepts(typed, TRUE, "")
          /\ self' = set_artifacts_bucket(self, typed)
          /\ answer' = <<typed>>
    /\ echo' = << >>
    /\ asked' = asked \cup group(pc)
    /\ Resume(pc)
    /\ UNCHANGED <<inputs, depth, edits, exit_status>>

_prompt_image_repository ==
    /\ pc = "_prompt_image_repository"
    /\ \E confirm \in BOOLEAN : \E typed \in TextInputs :
          /\ confirm \/ typed = ""
          /\ self' = set_image_repository(self, confirm, typed)
          /\ answer' = IF confirm THEN <<"y", typed>> ELSE <<"n">>
    /\ echo' = << >>
    /\ asked' = asked
    /\ Resume(pc)
    /\ UNCHANGED <<inputs, depth, edits, exit_status>>

_prompt_permissions_provider ==
    /\ pc = "_prompt_permissions_provider"
    /\ \E typed \in {"", "1", "2"} :
          /\ click_accepts(typed, TRUE, "")
          /\ self' = set_permissions_provider(self, typed)
          /\ answer' = <<typed>>
    /\ echo' = << >>
    /\ asked' = asked \cup group(pc)
    /\ Resume(pc)
    /\ UNCHANGED <<inputs, depth, edits, exit_status>>

_prompt_oidc_provider ==
    /\ pc = "_prompt_oidc_provider"
    /\ \E typed \in DOMAIN SUPPORTED_OIDC_PROVIDERS :
          /\ click_accepts(typed, FALSE, "")
          /\ self' = set_oidc_provider(self, typed)
          /\ answer' = <<typed>>
    /\ echo' = << >>
    /\ asked' = asked \cup group(pc)
    /\ Resume(pc)
    /\ UNCHANGED <<inputs, depth, edits, exit_status>>

_prompt_oidc_provider_url ==
    /\ pc = "_prompt_oidc_provider_url"
    /\ \E typed \in UrlInputs :
          /\ click_accepts(typed, oidc_url_default(self) # NO_URL, NO_URL)
          /\ self' = set_oidc_provider_url(self, typed)
          /\ answer' = <<line(typed)>>
    /\ echo' = << >>
    /\ asked' = asked \cup group(pc)
    /\ Resume(pc)
    /\ UNCHANGED <<inputs, depth, edits, exit_status>>

_prompt_oidc_client_id ==
    /\ pc = "_prompt_oidc_client_id"
    /\ \E typed \in TextInputs :
          /\ click_accepts(typed, oidc_client_id_default(self) # NONE, "")
          /\ self' = set_oidc_client_id(self, typed)
          /\ answer' = <<typed>>
    /\ echo' = << >>
    /\ asked' = asked \cup group(pc)
    /\ Resume(pc)
    /\ UNCHANGED <<inputs, depth, edits, exit_status>>

_prompt_bitbucket_repo_uuid ==
    /\ pc = "_prompt_bitbucket_repo_uuid"
    /\ \E typed \in TextInputs :
          /\ click_accepts(typed, FALSE, "")
          /\ self' = set_bitbucket_repo_uuid(self, typed)
          /\ answer' = <<typed>>
    /\ echo' = << >>
    /\ asked' = asked \cup group(pc)
    /\ Resume(pc)
    /\ UNCHANGED <<inputs, depth, edits, exit_status>>

_prompt_gitlab_group ==
    /\ pc = "_prompt_gitlab_group"
    /\ \E typed \in TextInputs :
          /\ click_accepts(typed, FALSE, "")
          /\ self' = set_gitlab_group(self, typed)
          /\ answer' = <<typed>>
    /\ echo' = << >>
    /\ asked' = asked \cup group(pc)
    /\ Resume(pc)
    /\ UNCHANGED <<inputs, depth, edits, exit_status>>

_prompt_gitlab_project ==
    /\ pc = "_prompt_gitlab_project"
    /\ \E typed \in TextInputs :
          /\ click_accepts(typed, FALSE, "")
          /\ self' = set_gitlab_project(self, typed)
          /\ answer' = <<typed>>
    /\ echo' = << >>
    /\ asked' = asked \cup group(pc)
    /\ Resume(pc)
    /\ UNCHANGED <<inputs, depth, edits, exit_status>>

_prompt_github_org ==
    /\ pc = "_prompt_github_org"
    /\ \E typed \in TextInputs :
          /\ click_accepts(typed, FALSE, "")
          /\ self' = set_github_org(self, typed)
          /\ answer' = <<typed>>
    /\ echo' = << >>
    /\ asked' = asked \cup group(pc)
    /\ Resume(pc)
    /\ UNCHANGED <<inputs, depth, edits, exit_status>>

_prompt_github_repo ==
    /\ pc = "_prompt_github_repo"
    /\ \E typed \in TextInputs :
          /\ click_accepts(typed, FALSE, "")
          /\ self' = set_github_repo(self, typed)
          /\ answer' = <<typed>>
    /\ echo' = << >>
    /\ asked' = asked \cup group(pc)
    /\ Resume(pc)
    /\ UNCHANGED <<inputs, depth, edits, exit_status>>

_prompt_deployment_branch ==
    /\ pc = "_prompt_deployment_branch"
    /\ \E typed \in BranchInputs :
          /\ click_accepts(typed, TRUE, "")
          /\ self' = set_deployment_branch(self, typed)
          /\ answer' = <<typed>>
    /\ echo' = << >>
    /\ asked' = asked \cup group(pc)
    /\ Resume(pc)
    /\ UNCHANGED <<inputs, depth, edits, exit_status>>

\* One iteration of a while loop of _validate_oidc_provider_url: the
\* guidance message of the loop, then the URL question again.
_validate_oidc_provider_url ==
    /\ pc \in {"_validate_oidc_provider_url:missing", "_validate_oidc_provider_url:https"}
    /\ \E typed \in UrlInputs :
          /\ click_accepts(typed, oidc_url_default(self) # NO_URL, NO_URL)
          /\ self' = set_oidc_provider_url(self, typed)
          /\ answer' = <<line(typed)>>
    /\ echo' = IF pc = "_validate_oidc_provider_url:missing"
               THEN <<ENTER_URL>> ELSE <<ENSURE_HTTPS>>
    /\ asked' = asked \cup group(pc)
    /\ Resume(pc)
    /\ UNCHANGED <<inputs, depth, edits, exit_status>>

\* One iteration of the while loop of run: build and print the list, read
\* the choice, and either enter the chosen entry's editor or leave the loop.
\* get_current_account_id, called for the first label, may raise.
summary ==
    /\ pc = "summary"
    /\ \E resolved \in BOOLEAN :
          IF ~resolved
          THEN /\ pc' = "raised"
               /\ UNCHANGED <<inputs, edits, answer>>
          ELSE /\ inputs' = _get_user_inputs(self)
               /\ \E typed \in {""} \cup {str(i) : i \in 0..Len(inputs')} :
                     LET edit_input == click_prompt(typed, "0", "")
                     IN  /\ IF int(edit_input) # 0
                            THEN /\ edits < MaxEdits
                                 /\ edits' = edits + 1
                                 /\ pc' = inputs'[int(edit_input)].editor
                            ELSE /\ pc' = "returned"
                                 /\ edits' = edits
                         /\ answer' = <<typed>>
    /\ echo' = << >>
    /\ UNCHANGED <<self, phase, depth, asked, exit_status>>

Next ==
    \/ _prompt_account_id
    \/ _prompt_stage_configuration_name
    \/ _prompt_region_name
    \/ _prompt_pipeline_user
    \/ _prompt_pipeline_execution_role
    \/ _prompt_cloudformation_execution_role
    \/ _prompt_artifacts_bucket
    \/ _prompt_image_repository
    \/ _prompt_permissions_provider
    \/ _prompt_oidc_provider
    \/ _prompt_oidc_provider_url
    \/ _prompt_oidc_client_id
    \/ _prompt_bitbucket_repo_uuid
    \/ _prompt_gitlab_group
    \/ _prompt_gitlab_project
    \/ _prompt_github_org
    \/ _prompt_github_repo
    \/ _prompt_deployment_branch
    \/ _validate_oidc_provider_url
    \/ summary

Spec == Init /\ [][Next]_vars

\* --------------------------------------------------------------- claims
\* the handlers run blocks in after _validate_oidc_provider_url returned
\* (line 386), and after _prompt_subject_claim returned (line 389)
AfterSubjectClaim ==
    { "_prompt_pipeline_execution_role", "_prompt_cloudformation_execution_role",
      "_prompt_artifacts_bucket", "_prompt_image_repository" }

AfterUrlGate ==
    { "_prompt_oidc_client_id", "_prompt_github_org", "_prompt_github_repo",
      "_prompt_gitlab_group", "_prompt_gitlab_project", "_prompt_deployment_branch",
      "_prompt_bitbucket_repo_uuid" } \cup AfterSubjectClaim

contains_https(s) == s.oidc_provider_url # NO_URL /\ find(s.oidc_provider_url, HTTPS) # -1
begins_with_https(s) == s.oidc_provider_url # NO_URL /\ find(s.oidc_provider_url, HTTPS) = 0

\* C1: with permissions provider OIDC, in every state past the URL gate of
\* the initial pass (the rest of the initial pass, every iteration of the
\* review loop, the state handed off on accept) the OIDC provider URL is
\* non-empty and contains https://.
C1_UrlContainsHttpsPastGate ==
    (self.permissions_provider = OPEN_ID_CONNECT /\ (phase = "review" \/ pc \in AfterUrlGate))
        => contains_https(self)

github_unset(s) ==
    s.github_org = NONE /\ s.github_repo = NONE /\ s.github_deployment_branch = NONE
gitlab_unset(s) ==
    s.gitlab_group = NONE /\ s.gitlab_project = NONE /\ s.gitlab_deployment_branch = NONE
bitbucket_unset(s) == s.bitbucket_repo_uuid = NONE

\* C2: with permissions provider OIDC and a provider chosen, after the
\* subject-claim step and throughout the review loop, the subject-claim
\* fields of the providers other than the chosen one are unset.  Stated of
\* what the flow does to them: a step into such a state leaves every field
\* of another provider unset that was unset before the step.
C2_OtherProvidersRemainUnset ==
    [][ ( /\ self'.permissions_provider = OPEN_ID_CONNECT
          /\ self'.oidc_provider # NONE
          /\ (phase' = "review" \/ pc' \in AfterSubjectClaim) )
        => /\ self'.oidc_provider # GITHUB_ACTIONS /\ github_unset(self) => github_unset(self')
           /\ self'.oidc_provider # GITLAB /\ gitlab_unset(self) => gitlab_unset(self')
           /\ self'.oidc_provider # BITBUCKET /\ bitbucket_unset(self)
                 => bitbucket_unset(self') ]_vars

create_matches_registry(s) == s.create_image_repository = (s.image_repository_arn = NONE)

\* C3 as claimed: after every invocation of the container-registry question,
\* whatever the answer to the confirmation, and in the state handed off on
\* accept, create_image_repository equals (image_repository_arn is empty).
C3_CreateAlwaysMatchesRegistry ==
    [][ /\ pc = "_prompt_image_repository" => create_matches_registry(self')
        /\ pc' = "returned" => create_matches_registry(self') ]_vars

\* C3 as amended: after an invocation of the container-registry question
\* answered yes, create_image_repository equals (image_repository_arn is
\* empty); after one answered no, create_image_repository is false and
\* image_repository_arn is what it was.
C3_CreateMatchesRegistryOnYes ==
    [][ pc = "_prompt_image_repository" =>
            IF Head(answer') = "y"
            THEN create_matches_registry(self')
            ELSE /\ self'.create_image_repository = FALSE
                 /\ self'.image_repository_arn = self.image_repository_arn ]_vars

\* the registry question was asked as a review edit and answered yes, Enter
C3_Witness ==
    /\ pc = "summary" /\ edits > 0
    /\ answer = <<"y", "">>
    /\ self.image_repository_arn = NONE /\ self.create_image_repository

\* C4: in the review loop of an OIDC run the rendered list has an entry
\* whose editor re-asks the OIDC provider choice.
C4_ProviderEntryInReview ==
    (phase = "review" /\ inputs # << >> /\ self.permissions_provider = OPEN_ID_CONNECT)
        => \E i \in 1..Len(inputs) : inputs[i].editor = "_prompt_oidc_provider"

\* C5: in the initial pass of an OIDC run the flow is past the URL gate (at
\* the client-ID step or later) only when the URL is non-empty and begins
\* with https://.
C5_PastGateOnlyWithHttpsPrefix ==
    (phase = "collect" /\ self.permissions_provider = OPEN_ID_CONNECT /\ pc \in AfterUrlGate)
        => begins_with_https(self)

\* the questions of the initial pass and their place in the declared order:
\* stage name, account, region, permissions provider, OIDC provider, OIDC
\* URL, OIDC client ID, subject-claim fields, pipeline user, pipeline
\* execution role, CloudFormation execution role, artifact storage, registry
UrlQuestion ==
    { "_prompt_oidc_provider_url", "_validate_oidc_provider_url:missing",
      "_validate_oidc_provider_url:https" }

CollectQuestions ==
    { "_prompt_stage_configuration_name", "_prompt_account_id", "_prompt_region_name",
      "_prompt_permissions_provider", "_prompt_oidc_provider", "_prompt_oidc_provider_url",
      "_prompt_oidc_client_id", "_prompt_github_org", "_prompt_github_repo",
      "_prompt_gitlab_group", "_prompt_gitlab_project", "_prompt_deployment_branch",
      "_prompt_bitbucket_repo_uuid", "_prompt_pipeline_user",
      "_prompt_pipeline_execution_role", "_prompt_cloudformation_execution_role",
      "_prompt_artifacts_bucket", "_prompt_image_repository" }

Position(q) ==
    CASE q = "_prompt_stage_configuration_name" -> 1
      [] q = "_prompt_account_id" -> 2
      [] q = "_prompt_region_name" -> 3
      [] q = "_prompt_permissions_provider" -> 4
      [] q = "_prompt_oidc_provider" -> 5
      [] q \in UrlQuestion -> 6
      [] q = "_prompt_oidc_client_id" -> 7
      [] q \in {"_prompt_github_org", "_prompt_gitlab_group", "_prompt_bitbucket_repo_uuid"} -> 8
      [] q \in {"_prompt_github_repo", "_prompt_gitlab_project"} -> 9
      [] q = "_prompt_deployment_branch" -> 10
      [] q = "_prompt_pipeline_user" -> 11
      [] q = "_prompt_pipeline_execution_role" -> 12
      [] q = "_prompt_cloudformation_execution_role" -> 13
      [] q = "_prompt_artifacts_bucket" -> 14
      [] q = "_prompt_image_repository" -> 15
      [] OTHER -> 16

\* whether the group of question q is included, and whether its field is empty
included(q, s) ==
    CASE q \in {"_prompt_oidc_provider", "_prompt_oidc_client_id"} \cup UrlQuestion ->
            s.permissions_provider = OPEN_ID_CONNECT
      [] q \in {"_prompt_github_org", "_prompt_github_repo"} ->
            s.permissions_provider = OPEN_ID_CONNECT /\ s.oidc_provider = GITHUB_ACTIONS
      [] q \in {"_prompt_gitlab_group", "_prompt_gitlab_project"} ->
            s.permissions_provider = OPEN_ID_CONNECT /\ s.oidc_provider = GITLAB
      [] q = "_prompt_deployment_branch" ->
            s.permissions_provider = OPEN_ID_CONNECT
            /\ s.oidc_provider \in {GITHUB_ACTIONS, GITLAB}
      [] q = "_prompt_bitbucket_repo_uuid" ->
            s.permissions_provider = OPEN_ID_CONNECT /\ s.oidc_provider = BITBUCKET
      [] q = "_prompt_pipeline_user" -> s.permissions_provider # OPEN_ID_CONNECT
      [] OTHER -> TRUE

field_empty(q, s) ==
    CASE q = "_prompt_stage_configuration_name" -> s.stage_configuration_name = NONE
      [] q = "_prompt_account_id" -> s.profile = NONE
      [] q = "_prompt_region_name" -> s.region = NONE
      [] q = "_prompt_permissions_provider" -> s.permissions_provider = NONE
      [] q = "_prompt_oidc_provider" -> s.oidc_provider = NONE
      [] q \in UrlQuestion -> s.oidc_provider_url = NO_URL
      [] q = "_prompt_oidc_client_id" -> s.oidc_client_id = NONE
      [] q = "_prompt_github_org" -> s.github_org = NONE
      [] q = "_prompt_github_repo" -> s.github_repo = NONE
      [] q = "_prompt_gitlab_group" -> s.gitlab_group = NONE
      [] q = "_prompt_gitlab_project" -> s.gitlab_project = NONE
      [] q = "_prompt_deployment_branch" ->
            IF s.oidc_provider = GITHUB_ACTIONS THEN s.github_deployment_branch = NONE
            ELSE s.gitlab_deployment_branch = NONE
      [] q = "_prompt_bitbucket_repo_uuid" -> s.bitbucket_repo_uuid = NONE
      [] q = "_prompt_pipeline_user" -> s.pipeline_user_arn = NONE
      [] q = "_prompt_pipeline_execution_role" -> s.pipeline_execution_role_arn = NONE
      [] q = "_prompt_cloudformation_execution_role" ->
            s.cloudformation_execution_role_arn = NONE
      [] q = "_prompt_artifacts_bucket" -> s.artifacts_bucket_arn = NONE
      [] q = "_prompt_image_repository" -> s.image_repository_arn = NONE

\* C6 as claimed: a question is asked exactly when its group is included and
\* its field is empty
asked_when_empty(q, s) == included(q, s) /\ field_empty(q, s)

\* C6 as amended: the account question always; the permissions-provider
\* question by the test of line 378; the URL question also for a non-empty
\* URL without https://
asked_by_rule(q, s) ==
    CASE q = "_prompt_account_id" -> TRUE
      [] q = "_prompt_permissions_provider" ->
            /\ s.enable_oidc_option
            /\ s.permissions_provider # OPEN_ID_CONNECT
            /\ s.pipeline_user_arn = NONE
      [] q \in UrlQuestion ->
            s.permissions_provider = OPEN_ID_CONNECT /\ ~contains_https(s)
      [] OTHER -> asked_when_empty(q, s)

\* the questions the initial pass passes over between handler from and
\* handler to
passed_over(from, to) ==
    {q \in CollectQuestions : Position(from) < Position(q) /\ Position(q) < Position(to)}

\* the run starts at the first question that is to be asked
starts_by(rule(_, _)) ==
    \A q \in CollectQuestions : Position(q) < Position(pc) => ~rule(q, self)

\* in the initial pass a handler entered from run (not from a retry of the
\* account question) is one that is to be asked
enters_by(rule(_, _)) ==
    (phase = "collect" /\ pc \in CollectQuestions \cup UrlQuestion /\ depth = 0)
        => rule(pc, self)

\* a step of the initial pass passes over no question that is to be asked,
\* and leaves the URL question only when it is not to be asked again
skips_by(rule(_, _)) ==
    (phase = "collect" /\ pc' # "exited")
        => /\ \A q \in passed_over(pc, pc') : ~rule(q, self')
           /\ (pc \in UrlQuestion /\ pc' \notin UrlQuestion) => ~rule(pc, self')

\* C6 as claimed: during the initial pass a question's handler is invoked if
\* and only if its group is included and its field is empty at that point.
C6_AskedIffFieldEmpty ==
    /\ starts_by(asked_when_empty)
    /\ [](enters_by(asked_when_empty))
    /\ [][skips_by(asked_when_empty)]_vars

\* C6 as amended: during the initial pass a question's handler is invoked if
\* and only if its group is included and its field is empty at that point,
\* except that the account question is always asked, the permissions-provider
\* question is asked exactly when the OIDC option is enabled, the provider is
\* not OIDC and no pipeline user is given, and the URL question is asked
\* exactly when the URL is empty or does not contain https://.
C6_AskedByRule ==
    /\ starts_by(asked_by_rule)
    /\ [](enters_by(asked_by_rule))
    /\ [][skips_by(asked_by_rule)]_vars

\* the initial pass skipped a pre-seeded region and went on to ask the
\* permissions provider although it was pre-seeded
C6_Witness ==
    /\ phase = "collect" /\ pc = "_prompt_permissions_provider"
    /\ self.permissions_provider = IAM

\* C7: in the initial pass the questions asked occur in the declared order
\* (every step goes to a question further down the order, or repeats the
\* account or the URL question in its retry loop), and never both an OIDC
\* question and the pipeline-user question are asked.
C7_DeclaredOrder ==
    /\ []((phase = "collect" \/ edits = 0) => asked # {"oidc", "pipeline_user"})
    /\ [][ (phase = "collect" /\ pc' # "exited")
             => \/ Position(pc) < Position(pc')
                \/ /\ Position(pc) = Position(pc')
                   /\ \/ pc = "_prompt_account_id" /\ pc' = pc
                      \/ pc \in UrlQuestion /\ pc' \in UrlQuestion ]_vars

\* an initial pass that asked the OIDC questions down to the deployment
\* branch has reached the registry question
C7_Witness ==
    /\ phase = "collect" /\ pc = "_prompt_image_repository"
    /\ asked = {"oidc"}
    /\ self.github_deployment_branch = "dev"

\* C8: a failed identity resolution at the account question (initial pass or
\* review edit) is reported and the account question is asked again before
\* anything else; the flow leaves the question only when the stored profile
\* was resolved, or by quit.
C8_AccountRetry ==
    [][ pc = "_prompt_account_id"
          => /\ depth' > depth =>
                  echo' = <<CREDENTIALS_ERROR>> /\ pc' = pc /\ phase' = phase
             /\ echo' = <<CREDENTIALS_ERROR>> => pc' = pc /\ depth' = depth + 1
             /\ pc' # pc =>
                  \/ pc' = "exited" /\ answer' = <<"q">>
                  \/ /\ echo' = <<ASSOCIATED, get_current_account_id(self'.profile)>>
                     /\ answer' # <<"q">>
                     /\ depth' = 0 ]_vars

\* the account question, re-run from the review loop, was asked again after
\* a failed resolution
C8_Witness ==
    /\ phase = "review" /\ pc = "_prompt_account_id"
    /\ depth > 0 /\ echo = <<CREDENTIALS_ERROR>>

\* C9: no credentials error ends the flow: run never ends by an exception.
C9_NoCredentialsErrorLeavesRun == pc # "raised"

\* C10: the answer "q" to the account question exits with status 0 and
\* changes no field, and nothing is asked or rendered after the exit.
C10_QuitExitsUnchanged ==
    [][ /\ pc # "exited"
        /\ exit_status = -1
        /\ (pc = "_prompt_account_id" /\ answer' = <<"q">>)
             => pc' = "exited" /\ exit_status' = 0 /\ self' = self
        /\ exit_status' = 0 => pc = "_prompt_account_id" /\ answer' = <<"q">> ]_vars

\* quit at a retry of the account question re-run from the review loop,
\* with a profile stored by the failed attempt
C10_Witness ==
    /\ pc = "exited" /\ exit_status = 0
    /\ phase = "review" /\ depth > 0 /\ self.profile # NONE

\* ------------------------------------------------------ the review loop
\* the iteration of the while loop that reads the choice typed as `answer'`
chose(k) == pc = "summary" /\ answer' = <<str(k)>>
accepted == pc = "summary" /\ answer' \in {<<"">>, <<"0">>}

\* C11: in the review loop a valid index k invokes exactly the editor of
\* the k-th entry of the list rendered in that iteration, and the editor's
\* return is followed by a new iteration (a recomputation and render of the
\* list), never by the end of the loop; accept (0 or Enter) leaves the loop
\* with the answers as they are, and the loop ends in no other way than by
\* accept or by the quit answer of the account question; after accept
\* nothing changes any more.
C11_ReviewLoop ==
    [][ /\ pc = "summary" =>
              /\ inputs' = _get_user_inputs(self)
              /\ self' = self
              /\ \/ accepted /\ pc' = "returned"
                 \/ \E k \in 1..Len(inputs') : chose(k) /\ pc' = inputs'[k].editor
        /\ (phase = "review" /\ pc # "summary") =>
              \/ pc' = "summary"
              \/ pc' = pc /\ pc = "_prompt_account_id"
              \/ pc' = "exited" /\ answer' = <<"q">>
        /\ pc # "returned" ]_vars

\* ------------------------------------------------- the review list, C12
\* what an entry is about: its editor and the value shown in its label
about(l) == [i \in 1..Len(l) |-> <<l[i].editor, l[i].label[2]>>]
contains(l, editor) == \E i \in 1..Len(l) : l[i].editor = editor

\* the subject-claim entries of the chosen provider
subject_claim_entries(s) ==
    IF s.oidc_provider = GITHUB_ACTIONS
    THEN << <<"_prompt_github_org", s.github_org>>,
            <<"_prompt_github_repo", s.github_repo>>,
            <<"_prompt_deployment_branch", s.github_deployment_branch>> >>
    ELSE IF s.oidc_provider = GITLAB
    THEN << <<"_prompt_gitlab_group", s.gitlab_group>>,
            <<"_prompt_gitlab_project", s.gitlab_project>>,
            <<"_prompt_deployment_branch", s.gitlab_deployment_branch>> >>
    ELSE IF s.oidc_provider = BITBUCKET
    THEN << <<"_prompt_bitbucket_repo_uuid", s.bitbucket_repo_uuid>> >>
    ELSE << >>

oidc_entries(s) ==
    << <<"_prompt_oidc_provider_url", s.oidc_provider_url>>,
       <<"_prompt_oidc_client_id", s.oidc_client_id>> >> \o subject_claim_entries(s)

resource_entries(s) ==
    << <<"_prompt_pipeline_execution_role", s.pipeline_execution_role_arn>>,
       <<"_prompt_cloudformation_execution_role", s.cloudformation_execution_role_arn>>,
       <<"_prompt_artifacts_bucket", s.artifacts_bucket_arn>>,
       <<"_prompt_image_repository", s.image_repository_arn>> >>

\* C12: in every answer state the review list contains the stage-name,
\* account and region entries; it contains the OIDC URL and client-ID
\* entries followed by the chosen provider's subject-claim entries (GitHub:
\* org, repo, branch; GitLab: group, project, branch; Bitbucket: UUID) iff
\* permissions_provider is OIDC, and the pipeline-user entry iff it is not;
\* its last four entries are the pipeline execution role, the
\* CloudFormation execution role, the artifacts bucket and the image
\* repository, in this order, each with the editor and value of its field.
C12_ReviewComposition ==
    LET l == _get_user_inputs(self)
        n == Len(l)
        oidc == self.permissions_provider = OPEN_ID_CONNECT
        middle == SubSeq(about(l), 4, n - 4)
    IN  /\ contains(l, "_prompt_stage_configuration_name")
        /\ contains(l, "_prompt_account_id")
        /\ contains(l, "_prompt_region_name")
        /\ \A q \in OidcQuestions : contains(l, q) => oidc
        /\ oidc => middle = oidc_entries(self)
        /\ contains(l, "_prompt_pipeline_user") <=> ~oidc
        /\ ~oidc => middle = << <<"_prompt_pipeline_user", self.pipeline_user_arn>> >>
        /\ n >= 4
        /\ SubSeq(about(l), n - 3, n) = resource_entries(self)

\* a rendered list of an OIDC run with GitLab chosen: twelve entries
C12_Witness ==
    /\ inputs # << >>
    /\ inputs = _get_user_inputs(self)
    /\ self.permissions_provider = OPEN_ID_CONNECT
    /\ self.oidc_provider = GITLAB
    /\ Len(inputs) = 12

\* ------------------------------------------------ handlers' frames, C13
\* the fields of the question a handler asks; the deployment-branch
\* question is asked for the active provider
owned(q, s) ==
    CASE q = "_prompt_account_id" -> {"profile"}
      [] q = "_prompt_stage_configuration_name" -> {"stage_configuration_name"}
      [] q = "_prompt_region_name" -> {"region"}
      [] q = "_prompt_permissions_provider" -> {"permissions_provider"}
      [] q = "_prompt_oidc_provider" -> {"oidc_provider"}
      [] q \in UrlQuestion -> {"oidc_provider_url"}
      [] q = "_prompt_oidc_client_id" -> {"oidc_client_id"}
      [] q = "_prompt_github_org" -> {"github_org"}
      [] q = "_prompt_github_repo" -> {"github_repo"}
      [] q = "_prompt_gitlab_group" -> {"gitlab_group"}
      [] q = "_prompt_gitlab_project" -> {"gitlab_project"}
      [] q = "_prompt_bitbucket_repo_uuid" -> {"bitbucket_repo_uuid"}
      [] q = "_prompt_deployment_branch" ->
            IF s.oidc_provider = GITHUB_ACTIONS THEN {"github_deployment_branch"}
            ELSE IF s.oidc_provider = GITLAB THEN {"gitlab_deployment_branch"}
            ELSE {}
      [] q = "_prompt_pipeline_user" -> {"pipeline_user_arn"}
      [] q = "_prompt_pipeline_execution_role" -> {"pipeline_execution_role_arn"}
      [] q = "_prompt_cloudformation_execution_role" ->
            {"cloudformation_execution_role_arn"}
      [] q = "_prompt_artifacts_bucket" -> {"artifacts_bucket_arn"}
      [] q = "_prompt_image_repository" ->
            {"image_repository_arn", "create_image_repository"}
      [] OTHER -> {}

\* C13: every prompt handler, in the initial pass or as a review edit,
\* changes only the fields of the question it asks and leaves every other
\* field unchanged; in particular a subject-claim question asked for the
\* active provider, the deployment-branch question included, leaves the
\* fields of the other providers unchanged.
C13_HandlersChangeOwnFields ==
    [][ \A f \in DOMAIN self : self'[f] # self[f] => f \in owned(pc, self) ]_vars

\* ------------------------------------------------- review editors, C14
\* the value of the field an entry's question is about
stored(q, s) ==
    CASE q = "_prompt_account_id" -> s.profile
      [] q = "_prompt_stage_configuration_name" -> s.stage_configuration_name
      [] q = "_prompt_region_name" -> s.region
      [] q = "_prompt_oidc_client_id" -> s.oidc_client_id
      [] q = "_prompt_github_org" -> s.github_org
      [] q = "_prompt_github_repo" -> s.github_repo
      [] q = "_prompt_gitlab_group" -> s.gitlab_group
      [] q = "_prompt_gitlab_project" -> s.gitlab_project
      [] q = "_prompt_bitbucket_repo_uuid" -> s.bitbucket_repo_uuid
      [] q = "_prompt_deployment_branch" ->
            IF s.oidc_provider = GITLAB THEN s.gitlab_deployment_branch
            ELSE s.github_deployment_branch
      [] q = "_prompt_pipeline_user" -> s.pipeline_user_arn
      [] q = "_prompt_pipeline_execution_role" -> s.pipeline_execution_role_arn
      [] q = "_prompt_cloudformation_execution_role" ->
            s.cloudformation_execution_role_arn
      [] q = "_prompt_artifacts_bucket" -> s.artifacts_bucket_arn
      [] q = "_prompt_image_repository" -> s.image_repository_arn

\* what a question's prompt shows as its default, taken on Enter
offered(q, s) ==
    CASE q = "_prompt_stage_configuration_name" -> s.stage_configuration_name
      [] q = "_prompt_region_name" -> get_default_aws_region
      [] q = "_prompt_oidc_client_id" -> oidc_client_id_default(s)
      [] q = "_prompt_deployment_branch" -> "main"
      [] OTHER -> ""

\* the answer given to a question: the line typed, the default on Enter;
\* for the account the profile chosen, for the image repository the ARN
\* typed after yes and no repository after no
answered(q, typed, s) ==
    CASE q = "_prompt_account_id" ->
            IF typed[1] = "1" THEN NONE ELSE list_available_profiles[int(typed[1]) - 1]
      [] q = "_prompt_image_repository" -> IF typed[1] = "y" THEN typed[2] ELSE NONE
      [] OTHER -> IF typed[1] # "" THEN typed[1] ELSE offered(q, s)

edited(q) == phase = "review" /\ pc = q /\ answer' # <<"q">>

\* C14: for every entry of the review list, its editor asks the entry's
\* question again and stores the answer in the entry's field whatever the
\* field held before; so for the image-repository entry too, after a yes
\* and after a no to its confirmation.
C14_EditorStoresAnswer ==
    [][ /\ \A q \in CollectQuestions \ {"_prompt_oidc_provider_url"} :
              edited(q) => stored(q, self') = answered(q, answer', self)
        /\ edited("_prompt_oidc_provider_url") =>
              \E typed \in UrlInputs :
                 /\ answer' = <<line(typed)>>
                 /\ self'.oidc_provider_url =
                       (IF typed # NO_URL THEN typed ELSE oidc_url_default(self)) ]_vars

\* ----------------------------------------------- permissions provider, C16
\* C16: when the flow completes by accept, whatever was pre-seeded (a
\* pipeline user, no permissions provider, the OIDC option disabled),
\* permissions_provider is one of IAM and OIDC.
C16_ProviderChosenAtAccept ==
    pc = "returned" => self.permissions_provider \in {IAM, OPEN_ID_CONNECT}

\* ------------------------------------------------- image repository, C17
declined == pc = "_prompt_image_repository" /\ answer' = <<"n">>

\* C17: whenever the image-repository question is asked while the ARN is
\* empty and the answer to the 'contains IMAGE functions' confirmation is
\* no, afterwards create_image_repository is false and the ARN is still
\* empty.
C17_DeclinedEmptyRegistry ==
    [][ (declined /\ self.image_repository_arn = NONE)
        => ~self'.create_image_repository /\ self'.image_repository_arn = NONE ]_vars

\* the question declined as a review edit, with no ARN stored and the flag
\* set by an earlier yes
C17_Witness ==
    /\ pc = "summary"
    /\ answer = <<"n">>
    /\ edits > 0
    /\ self.image_repository_arn = NONE
    /\ ~self.create_image_repository
    /\ inputs # << >>
    /\ inputs[Len(inputs)].label[1] = "ECR image repository: [to be created]"

\* ---------------------------------------------------- termination, C18
\* The three loops of the flow are left eventually: the account question by
\* a resolved identity (or by quit), the URL gate by a URL that contains
\* "https://", the review loop by accept.
account_left == _prompt_account_id /\ pc' # pc
url_gate_passed == _validate_oidc_provider_url /\ pc' \notin UrlQuestion
accept_chosen == summary /\ pc' = "returned"

\* where the flow stands; every step of a handler that returns, of the
\* account retry and of the review loop changes it
control == <<pc, phase, depth, edits>>

\* every prompt is answered, and the loops are left as above
FairSpec ==
    /\ Spec
    /\ WF_control(Next)
    /\ SF_control(account_left)
    /\ SF_control(url_gate_passed)
    /\ SF_control(accept_chosen)

\* C18: every run reaches completion unless the user quits, provided that
\* identity resolution eventually succeeds, a URL that contains "https://"
\* is eventually entered at the URL gate and accept is eventually chosen;
\* so the account retry, the URL gate and the review loop are the only
\* places where the flow can repeat forever.
C18_Completes == <>(pc \in {"returned", "exited"})

\* ------------------------------------------------ deployment branch, C19
\* the deployment branch of the active provider
active_branch(s) ==
    IF s.oidc_provider = GITLAB THEN s.gitlab_deployment_branch
    ELSE s.github_deployment_branch

\* C19: whenever the deployment-branch question is asked, for GitHub or
\* GitLab, in the initial pass or as a review edit, whatever the branch
\* stored, the default offered is "main": a bare Enter is accepted and
\* sets the active provider's deployment branch to "main".
C19_BranchDefaultsToMain ==
    [][ pc = "_prompt_deployment_branch"
          => /\ self.oidc_provider \in {GITHUB_ACTIONS, GITLAB}
             /\ answer' = <<"">> => active_branch(self') = "main"
             /\ answer' # <<"">> => active_branch(self') = answer'[1] ]_vars

\* a review edit of the GitLab branch: the list showed "dev", Enter was
\* pressed, the branch is "main"
C19_Witness ==
    /\ pc = "summary" /\ edits > 0
    /\ answer = <<"">>
    /\ self.oidc_provider = GITLAB
    /\ Len(inputs) = 12
    /\ inputs[8].editor = "_prompt_deployment_branch"
    /\ inputs[8].label[2] = "dev"
    /\ self.gitlab_deployment_branch = "main"

\* ------------------------------------------- the shape of the list, C20
\* the sequence of entry kinds of a list
kinds(l) == [i \in 1..Len(l) |-> l[i].editor]

\* C20: from the first render of the review list to the end of the flow no
\* step changes permissions_provider or the chosen OIDC provider, so every
\* render of a run has the same length and the same sequence of entry
\* kinds; and in no run are both the pipeline-user question and an OIDC
\* question asked.
C20_ListShapeFixed ==
    /\ [][ phase = "review"
             => /\ self'.permissions_provider = self.permissions_provider
                /\ self'.oidc_provider = self.oidc_provider ]_vars
    /\ [][ (inputs # << >> /\ inputs' # inputs) => kinds(inputs') = kinds(inputs) ]_vars
    /\ [](asked # {"oidc", "pipeline_user"})

\* an OIDC run accepted after two edits, so after three renders of a list
\* of twelve entries
C20_Witness ==
    /\ pc = "returned" /\ edits = 2
    /\ asked = {"oidc"}
    /\ Len(inputs) = 12
    /\ inputs = _get_user_inputs(self)

\* --------------------------------------- image repository declined, C21
\* the image-repository entry of the list built from s
registry_entry(s) == _get_user_inputs(s)[Len(_get_user_inputs(s))]

\* C21: after a no to the 'contains IMAGE functions' confirmation, in any
\* state (a review edit made while an ARN is stored included), the image
\* repository ARN is empty and the list rendered next shows the entry as
\* skipped, not a stored ARN.
C21_DeclinedRegistrySkipped ==
    [][ declined
          => /\ self'.image_repository_arn = NONE
             /\ registry_entry(self').label = <<"ECR image repository: [skipped]", NONE>>
      ]_vars

====
